---- MODULE Spec2Model ----
(***************************************************************************)
(* The OTLP trace Exporter (exporters/otlp/otlptrace/exporter.go): its     *)
(* started flag, the RWMutex guarding it, the two sync.Once gates, and the *)
(* Start, Shutdown and ExportSpans methods run by concurrent goroutines    *)
(* against a Client whose three operations may fail.                       *)
(***************************************************************************)
EXTENDS Integers, Sequences, FiniteSets, TLC

\* ------------------------------------------------------------- bounds
NumProcs == 2       \* goroutines calling into one Exporter
MaxBatch == 2       \* spans in one ExportSpans batch

Procs == 1..NumProcs

\* ------------------------------------------------------------- values
Nil == "nil"
errAlreadyStarted == "already started"
ErrClient == "E"
\* what a Client operation may return: success or an opaque error
ClientResults == {Nil, ErrClient}

\* a span: "nil" (a nil ReadOnlySpan) or one of two spans
SpanValues == {"nil", "a", "b"}
Batches == UNION {[1..n -> SpanValues] : n \in 0..MaxBatch}

\* the wire record of one span
WireRecord(s) == <<"wire", s>>

\* tracetransform.Spans: order-preserving, one wire record per non-nil span
RECURSIVE Spans(_)
Spans(b) ==
    IF b = <<>> THEN <<>>
    ELSE IF Head(b) = "nil" THEN Spans(Tail(b))
    ELSE <<WireRecord(Head(b))>> \o Spans(Tail(b))

VARIABLES
    started,        \* Exporter.started
    mu,             \* Exporter.mu: [writer: 0 or the holder, readers: set of holders]
    startOnce,      \* Exporter.startOnce: [done, m] (m: 0 or the holder of Once.m)
    stopOnce,       \* Exporter.stopOnce
    client,         \* the Client: calls received, calls in progress, results given
    pc,             \* each goroutine's position
    op,             \* the method each goroutine is in, or last returned from
    ss,             \* ExportSpans' argument
    protoSpans,     \* ExportSpans' local protoSpans
    err,            \* Start's and Shutdown's local err
    localStarted,   \* Shutdown's local started
    ret,            \* the value the goroutine's last call returned
    invoked,        \* the Client operations the current (or last) call invoked
    uploaded,       \* the batches the current (or last) call passed to UploadTraces
    uploadResult,   \* what UploadTraces returned to the current (or last) call
    beganState,     \* the controller state when the current (or last) call began
    beganAfterStart,\* whether a Start call had returned when the call began
    writes,         \* the values written to Exporter.started, in order
    startBegun,     \* some Start call has begun
    startReturned,  \* some Start call has returned
    shutdownFirst,  \* history: "yes" once a Shutdown call returned before any Start
                    \* call began, "no" before; "untracked" where it is not kept
    handle,         \* the Exporter's holder: [state: "none", "constructing" (by a
                    \* goroutine inside NewExporter), "shared", "failed"; by]
    newRet          \* the error NewExporter returned, "none" before

vars == <<started, mu, startOnce, stopOnce, client, pc, op, ss, protoSpans, err,
          localStarted, ret, invoked, uploaded, uploadResult, beganState,
          beganAfterStart, writes, startBegun, startReturned, shutdownFirst,
          handle, newRet>>

exporter == <<started, mu, startOnce, stopOnce, writes>>
locals == <<ss, protoSpans, err, localStarted>>
records == <<invoked, uploaded, uploadResult, beganState, beganAfterStart>>
history == <<startBegun, startReturned>>
setup == <<shutdownFirst, handle, newRet>>

\* The controller state the started flag and its writes stand for
ControllerState ==
    IF started THEN "Running"
    ELSE IF \E i \in 1..Len(writes) : writes[i] = FALSE THEN "Stopped"
    ELSE "Idle"

\* lines 101-103: the zero Exporter bound to a Client nothing has called
Unstarted ==
    /\ started = FALSE
    /\ mu = [writer |-> 0, readers |-> {}]
    /\ startOnce = [done |-> FALSE, m |-> 0]
    /\ stopOnce = [done |-> FALSE, m |-> 0]
    /\ client = [startCalls |-> 0, stopCalls |-> 0,
                 inStart |-> FALSE, inStop |-> FALSE,
                 startResult |-> "none", stopResult |-> "none"]
    /\ pc = [p \in Procs |-> "idle"]
    /\ op = [p \in Procs |-> "none"]
    /\ ss = [p \in Procs |-> <<>>]
    /\ protoSpans = [p \in Procs |-> <<>>]
    /\ err = [p \in Procs |-> Nil]
    /\ localStarted = [p \in Procs |-> FALSE]
    /\ ret = [p \in Procs |-> "none"]
    /\ invoked = [p \in Procs |-> {}]
    /\ uploaded = [p \in Procs |-> <<>>]
    /\ uploadResult = [p \in Procs |-> "none"]
    /\ beganState = [p \in Procs |-> "Idle"]
    /\ beganAfterStart = [p \in Procs |-> FALSE]
    /\ writes = <<>>
    /\ startBegun = FALSE
    /\ startReturned = FALSE
    /\ newRet = "none"

\* NewUnstartedExporter: the caller holds the Exporter and may share it
Init ==
    /\ Unstarted
    /\ handle = [state |-> "shared", by |-> 0]
    /\ shutdownFirst = "untracked"

\* who may call a method: anyone once the Exporter is handed out; inside
\* NewExporter (line 93) only the constructing goroutine, and only Start, once
CanCall(p, method) ==
    \/ handle.state = "shared"
    \/ /\ handle = [state |-> "constructing", by |-> p]
       /\ method = "Start"
       /\ ~startBegun

\* a goroutine enters a method with argument b and local err e
Enter(p, method, b, e) ==
    /\ pc[p] = "idle"
    /\ CanCall(p, method)
    /\ op' = [op EXCEPT ![p] = method]
    /\ ret' = [ret EXCEPT ![p] = "none"]
    /\ ss' = [ss EXCEPT ![p] = b]
    /\ err' = [err EXCEPT ![p] = e]
    /\ beganState' = [beganState EXCEPT ![p] = ControllerState]
    /\ beganAfterStart' = [beganAfterStart EXCEPT ![p] = startReturned]
    /\ UNCHANGED <<localStarted, invoked, uploaded, uploadResult>>

\* a goroutine returns r from its method: the call's locals and records end
Leave(p, r) ==
    /\ ret' = [ret EXCEPT ![p] = r]
    /\ pc' = [pc EXCEPT ![p] = "idle"]
    /\ ss' = [ss EXCEPT ![p] = <<>>]
    /\ protoSpans' = [protoSpans EXCEPT ![p] = <<>>]
    /\ err' = [err EXCEPT ![p] = Nil]
    /\ localStarted' = [localStarted EXCEPT ![p] = FALSE]
    /\ invoked' = [invoked EXCEPT ![p] = {}]
    /\ uploaded' = [uploaded EXCEPT ![p] = <<>>]
    /\ uploadResult' = [uploadResult EXCEPT ![p] = "none"]
    /\ beganState' = [beganState EXCEPT ![p] = "Idle"]
    /\ beganAfterStart' = [beganAfterStart EXCEPT ![p] = FALSE]

Goto(p, label) == pc' = [pc EXCEPT ![p] = label]

\* ------------------------------------------------------------- ExportSpans

\* lines 44-45: protoSpans := tracetransform.Spans(ss)
ExportSpansCall(p) ==
    \E b \in Batches :
        /\ Enter(p, "ExportSpans", b, Nil)
        /\ protoSpans' = [protoSpans EXCEPT ![p] = Spans(b)]
        /\ Goto(p, "export_check")
        /\ UNCHANGED <<setup, exporter, client, history>>

\* ExportSpansCheck as it would be with a check of the started flag added
ExportSpansCheck_Gated(p) ==
    /\ pc[p] = "export_check"
    /\ IF Len(protoSpans[p]) = 0 \/ ~started
       THEN Goto(p, "export_return")
       ELSE Goto(p, "export_upload")
    /\ UNCHANGED <<setup, exporter, client, op, locals, ret, records, history>>

\* ExportSpansCheck as it would be without the test for an empty batch
ExportSpansCheck_NoGuard(p) ==
    /\ pc[p] = "export_check"
    /\ Goto(p, "export_upload")
    /\ UNCHANGED <<setup, exporter, client, op, locals, ret, records, history>>

\* lines 46-48: if len(protoSpans) == 0 { return nil }
ExportSpansCheck(p) ==
    /\ pc[p] = "export_check"
    /\ IF Len(protoSpans[p]) = 0
       THEN Goto(p, "export_return")
       ELSE Goto(p, "export_upload")
    /\ UNCHANGED <<setup, exporter, client, op, locals, ret, records, history>>

\* ExportSpansUpload as it would be if the batch lost its first record
ExportSpansUpload_DropsFirst(p) ==
    /\ pc[p] = "export_upload"
    /\ invoked' = [invoked EXCEPT ![p] = @ \cup {"UploadTraces"}]
    /\ uploaded' = [uploaded EXCEPT ![p] = Append(@, Tail(protoSpans[p]))]
    /\ Goto(p, "export_wait")
    /\ UNCHANGED <<setup, exporter, client, op, locals, ret, uploadResult, beganState,
                   beganAfterStart, history>>

\* line 50: e.client.UploadTraces(ctx, protoSpans) is invoked
ExportSpansUpload(p) ==
    /\ pc[p] = "export_upload"
    /\ invoked' = [invoked EXCEPT ![p] = @ \cup {"UploadTraces"}]
    /\ uploaded' = [uploaded EXCEPT ![p] = Append(@, protoSpans[p])]
    /\ Goto(p, "export_wait")
    /\ UNCHANGED <<setup, exporter, client, op, locals, ret, uploadResult, beganState,
                   beganAfterStart, history>>

\* ExportSpansUploadReturn as it would be if the call waited for the Client to be
\* out of Start and Stop
ExportSpansUploadReturn_WaitsForClient(p) ==
    /\ pc[p] = "export_wait"
    /\ ~client.inStart /\ ~client.inStop
    /\ \E r \in ClientResults :
        /\ uploadResult' = [uploadResult EXCEPT ![p] = r]
        /\ err' = [err EXCEPT ![p] = r]
    /\ Goto(p, "export_return")
    /\ UNCHANGED <<setup, exporter, client, op, ss, protoSpans, localStarted, ret, invoked,
                   uploaded, beganState, beganAfterStart, history>>

\* line 50: UploadTraces returns
ExportSpansUploadReturn(p) ==
    /\ pc[p] = "export_wait"
    /\ \E r \in ClientResults :
        /\ uploadResult' = [uploadResult EXCEPT ![p] = r]
        /\ err' = [err EXCEPT ![p] = r]
    /\ Goto(p, "export_return")
    /\ UNCHANGED <<setup, exporter, client, op, ss, protoSpans, localStarted, ret, invoked,
                   uploaded, beganState, beganAfterStart, history>>

\* lines 47 and 50: return nil, or what UploadTraces returned
ExportSpansReturn(p) ==
    /\ pc[p] = "export_return"
    /\ Leave(p, err[p])
    /\ UNCHANGED <<setup, exporter, client, op, history>>

\* ------------------------------------------------------------- Start

\* StartBodyNext as it would be with the Client call first and the flag after
StartBodyNext_ClientFirst(at) ==
    CASE at = "enter" -> "start_client"
      [] at = "start_client_wait" -> "start_mu_lock"
      [] at = "start_mu_unlock" -> "start_once_done"

\* the order of the function Start hands to startOnce.Do (lines 56-61): from
\* entering it, lock, set started, unlock; then the Client call; then its end
StartBodyNext(at) ==
    CASE at = "enter" -> "start_mu_lock"
      [] at = "start_mu_unlock" -> "start_client"
      [] at = "start_client_wait" -> "start_once_done"

\* lines 54-55: var err = errAlreadyStarted
StartCall(p) ==
    /\ Enter(p, "Start", <<>>, errAlreadyStarted)
    /\ startBegun' = TRUE
    /\ Goto(p, "start_once")
    /\ UNCHANGED <<setup, exporter, client, protoSpans, startReturned>>

\* StartOnceDo as it would be if a caller finding the gate taken did not wait
StartOnceDo_NoWait(p) ==
    /\ pc[p] = "start_once"
    /\ IF startOnce.done \/ startOnce.m # 0
       THEN Goto(p, "start_return")
       ELSE Goto(p, "start_once_lock")
    /\ UNCHANGED <<setup, exporter, client, op, locals, ret, records, history>>

\* line 56: startOnce.Do, the fast path: done is read without Once.m
StartOnceDo(p) ==
    /\ pc[p] = "start_once"
    /\ IF startOnce.done THEN Goto(p, "start_return") ELSE Goto(p, "start_once_lock")
    /\ UNCHANGED <<setup, exporter, client, op, locals, ret, records, history>>

\* StartOnceLock as it would be if done were not read again under Once.m
StartOnceLock_NoRecheck(p) ==
    /\ pc[p] = "start_once_lock"
    /\ startOnce.m = 0
    /\ startOnce' = [startOnce EXCEPT !.m = p]
    /\ Goto(p, StartBodyNext("enter"))
    /\ UNCHANGED <<setup, started, mu, stopOnce, writes, client, op, locals, ret, records,
                   history>>

\* line 56: startOnce.Do, the slow path: take Once.m and read done again
StartOnceLock(p) ==
    /\ pc[p] = "start_once_lock"
    /\ startOnce.m = 0
    /\ startOnce' = [startOnce EXCEPT !.m = p]
    /\ IF startOnce.done
       THEN Goto(p, "start_once_unlock")
       ELSE Goto(p, StartBodyNext("enter"))
    /\ UNCHANGED <<setup, started, mu, stopOnce, writes, client, op, locals, ret, records,
                   history>>

\* line 57: e.mu.Lock()
StartMuLock(p) ==
    /\ pc[p] = "start_mu_lock"
    /\ mu.writer = 0 /\ mu.readers = {}
    /\ mu' = [mu EXCEPT !.writer = p]
    /\ Goto(p, "start_set")
    /\ UNCHANGED <<setup, started, startOnce, stopOnce, writes, client, op, locals, ret,
                   records, history>>

\* line 58: e.started = true
StartSetStarted(p) ==
    /\ pc[p] = "start_set"
    /\ started' = TRUE
    /\ writes' = Append(writes, TRUE)
    /\ Goto(p, "start_mu_unlock")
    /\ UNCHANGED <<setup, mu, startOnce, stopOnce, client, op, locals, ret, records, history>>

\* StartMuUnlock as it would be if Start kept e.mu
StartMuUnlock_Forgets(p) ==
    /\ pc[p] = "start_mu_unlock"
    /\ Goto(p, StartBodyNext("start_mu_unlock"))
    /\ UNCHANGED <<setup, exporter, client, op, locals, ret, records, history>>

\* line 59: e.mu.Unlock()
StartMuUnlock(p) ==
    /\ pc[p] = "start_mu_unlock"
    /\ mu' = [mu EXCEPT !.writer = 0]
    /\ Goto(p, StartBodyNext("start_mu_unlock"))
    /\ UNCHANGED <<setup, started, startOnce, stopOnce, writes, client, op, locals, ret,
                   records, history>>

\* line 60: e.client.Start(ctx) is invoked
StartClientStart(p) ==
    /\ pc[p] = "start_client"
    /\ client' = [client EXCEPT !.startCalls = @ + 1, !.inStart = TRUE]
    /\ invoked' = [invoked EXCEPT ![p] = @ \cup {"Start"}]
    /\ Goto(p, "start_client_wait")
    /\ UNCHANGED <<setup, exporter, op, locals, ret, uploaded, uploadResult, beganState,
                   beganAfterStart, history>>

\* StartClientReturn as it would be if a failed Client.Start reset the flag
StartClientReturn_Rollback(p) ==
    /\ pc[p] = "start_client_wait"
    /\ \E r \in ClientResults :
        /\ client' = [client EXCEPT !.inStart = FALSE, !.startResult = r]
        /\ err' = [err EXCEPT ![p] = r]
        /\ IF r = Nil
           THEN UNCHANGED <<started, writes>>
           ELSE started' = FALSE /\ writes' = Append(writes, FALSE)
    /\ Goto(p, StartBodyNext("start_client_wait"))
    /\ UNCHANGED <<setup, mu, startOnce, stopOnce, op, ss, protoSpans, localStarted, ret,
                   records, history>>

\* line 60: Client.Start returns; err = its result
StartClientReturn(p) ==
    /\ pc[p] = "start_client_wait"
    /\ \E r \in ClientResults :
        /\ client' = [client EXCEPT !.inStart = FALSE, !.startResult = r]
        /\ err' = [err EXCEPT ![p] = r]
    /\ Goto(p, StartBodyNext("start_client_wait"))
    /\ UNCHANGED <<setup, exporter, op, ss, protoSpans, localStarted, ret, records, history>>

\* StartOnceDone as it would be if the gate never recorded that it ran
StartOnceDone_Forgets(p) ==
    /\ pc[p] = "start_once_done"
    /\ Goto(p, "start_once_unlock")
    /\ UNCHANGED <<setup, exporter, client, op, locals, ret, records, history>>

\* line 61: the function returns: Once stores done
StartOnceDone(p) ==
    /\ pc[p] = "start_once_done"
    /\ startOnce' = [startOnce EXCEPT !.done = TRUE]
    /\ Goto(p, "start_once_unlock")
    /\ UNCHANGED <<setup, started, mu, stopOnce, writes, client, op, locals, ret, records,
                   history>>

\* line 61: Once releases Once.m
StartOnceUnlock(p) ==
    /\ pc[p] = "start_once_unlock"
    /\ startOnce' = [startOnce EXCEPT !.m = 0]
    /\ Goto(p, "start_return")
    /\ UNCHANGED <<setup, started, mu, stopOnce, writes, client, op, locals, ret, records,
                   history>>

\* line 63: return err
StartReturn(p) ==
    /\ pc[p] = "start_return"
    /\ Leave(p, err[p])
    /\ startReturned' = TRUE
    /\ UNCHANGED <<setup, exporter, client, op, startBegun>>

\* ------------------------------------------------------------- Shutdown

\* line 67: Shutdown is entered
ShutdownCall(p) ==
    /\ Enter(p, "Shutdown", <<>>, Nil)
    /\ Goto(p, "shutdown_rlock")
    /\ UNCHANGED <<setup, exporter, client, protoSpans, history>>

\* line 68: e.mu.RLock()
ShutdownRLock(p) ==
    /\ pc[p] = "shutdown_rlock"
    /\ mu.writer = 0
    /\ mu' = [mu EXCEPT !.readers = @ \cup {p}]
    /\ Goto(p, "shutdown_read")
    /\ UNCHANGED <<setup, started, startOnce, stopOnce, writes, client, op, locals, ret,
                   records, history>>

\* ShutdownRead as it would be if Shutdown took the controller for started
ShutdownRead_AssumesStarted(p) ==
    /\ pc[p] = "shutdown_read"
    /\ localStarted' = [localStarted EXCEPT ![p] = TRUE]
    /\ Goto(p, "shutdown_runlock")
    /\ UNCHANGED <<setup, exporter, client, op, ss, protoSpans, err, ret, records, history>>

\* line 69: started := e.started
ShutdownRead(p) ==
    /\ pc[p] = "shutdown_read"
    /\ localStarted' = [localStarted EXCEPT ![p] = started]
    /\ Goto(p, "shutdown_runlock")
    /\ UNCHANGED <<setup, exporter, client, op, ss, protoSpans, err, ret, records, history>>

\* line 70: e.mu.RUnlock()
ShutdownRUnlock(p) ==
    /\ pc[p] = "shutdown_runlock"
    /\ mu' = [mu EXCEPT !.readers = @ \ {p}]
    /\ Goto(p, "shutdown_check")
    /\ UNCHANGED <<setup, started, startOnce, stopOnce, writes, client, op, locals, ret,
                   records, history>>

\* ShutdownCheck as it would be if the early return used up the stop gate
ShutdownCheck_ConsumesGate(p) ==
    /\ pc[p] = "shutdown_check"
    /\ IF ~localStarted[p]
       THEN /\ stopOnce' = [stopOnce EXCEPT !.done = TRUE]
            /\ Goto(p, "shutdown_return")
       ELSE /\ stopOnce' = stopOnce
            /\ Goto(p, "shutdown_once")
    /\ UNCHANGED <<setup, started, mu, startOnce, writes, client, op, locals, ret, records,
                   history>>

\* ShutdownCheck as it would be without the early return
ShutdownCheck_NoEarlyReturn(p) ==
    /\ pc[p] = "shutdown_check"
    /\ Goto(p, "shutdown_once")
    /\ UNCHANGED <<setup, exporter, client, op, locals, ret, records, history>>

\* lines 72-76: if !started { return nil }; var err error
ShutdownCheck(p) ==
    /\ pc[p] = "shutdown_check"
    /\ IF ~localStarted[p]
       THEN Goto(p, "shutdown_return")
       ELSE Goto(p, "shutdown_once")
    /\ UNCHANGED <<setup, exporter, client, op, locals, ret, records, history>>

\* ShutdownOnceDo as it would be if a caller finding the gate taken did not wait
ShutdownOnceDo_NoWait(p) ==
    /\ pc[p] = "shutdown_once"
    /\ IF stopOnce.done \/ stopOnce.m # 0
       THEN Goto(p, "shutdown_return")
       ELSE Goto(p, "shutdown_once_lock")
    /\ UNCHANGED <<setup, exporter, client, op, locals, ret, records, history>>

\* line 78: stopOnce.Do, the fast path: done is read without Once.m
ShutdownOnceDo(p) ==
    /\ pc[p] = "shutdown_once"
    /\ IF stopOnce.done THEN Goto(p, "shutdown_return") ELSE Goto(p, "shutdown_once_lock")
    /\ UNCHANGED <<setup, exporter, client, op, locals, ret, records, history>>

\* ShutdownOnceLock as it would be if done were not read again under Once.m
ShutdownOnceLock_NoRecheck(p) ==
    /\ pc[p] = "shutdown_once_lock"
    /\ stopOnce.m = 0
    /\ stopOnce' = [stopOnce EXCEPT !.m = p]
    /\ Goto(p, "shutdown_client")
    /\ UNCHANGED <<setup, started, mu, startOnce, writes, client, op, locals, ret, records,
                   history>>

\* line 78: stopOnce.Do, the slow path: take Once.m and read done again
ShutdownOnceLock(p) ==
    /\ pc[p] = "shutdown_once_lock"
    /\ stopOnce.m = 0
    /\ stopOnce' = [stopOnce EXCEPT !.m = p]
    /\ IF stopOnce.done
       THEN Goto(p, "shutdown_once_unlock")
       ELSE Goto(p, "shutdown_client")
    /\ UNCHANGED <<setup, started, mu, startOnce, writes, client, op, locals, ret, records,
                   history>>

\* ShutdownClientStop as it would be if the stop gate were marked done at once
ShutdownClientStop_MarksDone(p) ==
    /\ pc[p] = "shutdown_client"
    /\ stopOnce' = [stopOnce EXCEPT !.done = TRUE]
    /\ client' = [client EXCEPT !.stopCalls = @ + 1, !.inStop = TRUE]
    /\ invoked' = [invoked EXCEPT ![p] = @ \cup {"Stop"}]
    /\ Goto(p, "shutdown_client_wait")
    /\ UNCHANGED <<setup, started, mu, startOnce, writes, op, locals, ret, uploaded,
                   uploadResult, beganState, beganAfterStart, history>>

\* ShutdownClientStop as it would be if the flag were reset before the Client call
ShutdownClientStop_FlipsFirst(p) ==
    /\ pc[p] = "shutdown_client"
    /\ started' = FALSE
    /\ writes' = Append(writes, FALSE)
    /\ client' = [client EXCEPT !.stopCalls = @ + 1, !.inStop = TRUE]
    /\ invoked' = [invoked EXCEPT ![p] = @ \cup {"Stop"}]
    /\ Goto(p, "shutdown_client_wait")
    /\ UNCHANGED <<setup, mu, startOnce, stopOnce, op, locals, ret, uploaded, uploadResult,
                   beganState, beganAfterStart, history>>

\* line 79: e.client.Stop(ctx) is invoked
ShutdownClientStop(p) ==
    /\ pc[p] = "shutdown_client"
    /\ client' = [client EXCEPT !.stopCalls = @ + 1, !.inStop = TRUE]
    /\ invoked' = [invoked EXCEPT ![p] = @ \cup {"Stop"}]
    /\ Goto(p, "shutdown_client_wait")
    /\ UNCHANGED <<setup, exporter, op, locals, ret, uploaded, uploadResult, beganState,
                   beganAfterStart, history>>

\* ShutdownClientReturn as it would be if a failed Client.Stop left the flag alone
ShutdownClientReturn_SkipsFlipOnError(p) ==
    /\ pc[p] = "shutdown_client_wait"
    /\ \E r \in ClientResults :
        /\ client' = [client EXCEPT !.inStop = FALSE, !.stopResult = r]
        /\ err' = [err EXCEPT ![p] = r]
        /\ Goto(p, IF r = Nil THEN "shutdown_mu_lock" ELSE "shutdown_once_done")
    /\ UNCHANGED <<setup, exporter, op, ss, protoSpans, localStarted, ret, records, history>>

\* line 79: Client.Stop returns; err = its result
ShutdownClientReturn(p) ==
    /\ pc[p] = "shutdown_client_wait"
    /\ \E r \in ClientResults :
        /\ client' = [client EXCEPT !.inStop = FALSE, !.stopResult = r]
        /\ err' = [err EXCEPT ![p] = r]
    /\ Goto(p, "shutdown_mu_lock")
    /\ UNCHANGED <<setup, exporter, op, ss, protoSpans, localStarted, ret, records, history>>

\* line 80: e.mu.Lock()
ShutdownMuLock(p) ==
    /\ pc[p] = "shutdown_mu_lock"
    /\ mu.writer = 0 /\ mu.readers = {}
    /\ mu' = [mu EXCEPT !.writer = p]
    /\ Goto(p, "shutdown_set")
    /\ UNCHANGED <<setup, started, startOnce, stopOnce, writes, client, op, locals, ret,
                   records, history>>

\* line 81: e.started = false
ShutdownSetStopped(p) ==
    /\ pc[p] = "shutdown_set"
    /\ started' = FALSE
    /\ writes' = Append(writes, FALSE)
    /\ Goto(p, "shutdown_mu_unlock")
    /\ UNCHANGED <<setup, mu, startOnce, stopOnce, client, op, locals, ret, records, history>>

\* line 82: e.mu.Unlock()
ShutdownMuUnlock(p) ==
    /\ pc[p] = "shutdown_mu_unlock"
    /\ mu' = [mu EXCEPT !.writer = 0]
    /\ Goto(p, "shutdown_once_done")
    /\ UNCHANGED <<setup, started, startOnce, stopOnce, writes, client, op, locals, ret,
                   records, history>>

\* line 83: the function returns: Once stores done
ShutdownOnceDone(p) ==
    /\ pc[p] = "shutdown_once_done"
    /\ stopOnce' = [stopOnce EXCEPT !.done = TRUE]
    /\ Goto(p, "shutdown_once_unlock")
    /\ UNCHANGED <<setup, started, mu, startOnce, writes, client, op, locals, ret, records,
                   history>>

\* line 83: Once releases Once.m
ShutdownOnceUnlock(p) ==
    /\ pc[p] = "shutdown_once_unlock"
    /\ stopOnce' = [stopOnce EXCEPT !.m = 0]
    /\ Goto(p, "shutdown_return")
    /\ UNCHANGED <<setup, started, mu, startOnce, writes, client, op, locals, ret, records,
                   history>>

\* line 85: return err
ShutdownReturn(p) ==
    /\ pc[p] = "shutdown_return"
    /\ Leave(p, err[p])
    /\ shutdownFirst' = IF shutdownFirst = "no" /\ ~startBegun
                        THEN "yes"
                        ELSE shutdownFirst
    /\ UNCHANGED <<handle, newRet, exporter, client, op, history>>

\* ------------------------------------------------------------- NewExporter

\* lines 91-92: exp := NewUnstartedExporter(client); exp.Start(ctx) is next
NewExporterCall(p) ==
    /\ handle.state = "none"
    /\ pc[p] = "idle"
    /\ handle' = [state |-> "constructing", by |-> p]
    /\ UNCHANGED <<exporter, client, pc, op, locals, ret, records, history,
                   shutdownFirst, newRet>>

\* NewExporterReturn as it would be if the Exporter were returned even on error
NewExporterReturn_ReturnsBoth(p) ==
    /\ handle = [state |-> "constructing", by |-> p]
    /\ pc[p] = "idle" /\ op[p] = "Start" /\ ret[p] # "none"
    /\ newRet' = ret[p]
    /\ handle' = [state |-> "shared", by |-> 0]
    /\ UNCHANGED <<exporter, client, pc, op, locals, ret, records, history,
                   shutdownFirst>>

\* lines 93-96: if err != nil { return nil, err }; return exp, nil
NewExporterReturn(p) ==
    /\ handle = [state |-> "constructing", by |-> p]
    /\ pc[p] = "idle" /\ op[p] = "Start" /\ ret[p] # "none"
    /\ newRet' = ret[p]
    /\ handle' = [state |-> IF ret[p] # Nil THEN "failed" ELSE "shared", by |-> 0]
    /\ UNCHANGED <<exporter, client, pc, op, locals, ret, records, history,
                   shutdownFirst>>

\* ------------------------------------------------------------- the system

Next ==
    \E p \in Procs :
        \/ ExportSpansCall(p)
        \/ ExportSpansCheck(p)
        \/ ExportSpansUpload(p)
        \/ ExportSpansUploadReturn(p)
        \/ ExportSpansReturn(p)
        \/ StartCall(p)
        \/ StartOnceDo(p)
        \/ StartOnceLock(p)
        \/ StartMuLock(p)
        \/ StartSetStarted(p)
        \/ StartMuUnlock(p)
        \/ StartClientStart(p)
        \/ StartClientReturn(p)
        \/ StartOnceDone(p)
        \/ StartOnceUnlock(p)
        \/ StartReturn(p)
        \/ ShutdownCall(p)
        \/ ShutdownRLock(p)
        \/ ShutdownRead(p)
        \/ ShutdownRUnlock(p)
        \/ ShutdownCheck(p)
        \/ ShutdownOnceDo(p)
        \/ ShutdownOnceLock(p)
        \/ ShutdownClientStop(p)
        \/ ShutdownClientReturn(p)
        \/ ShutdownMuLock(p)
        \/ ShutdownSetStopped(p)
        \/ ShutdownMuUnlock(p)
        \/ ShutdownOnceDone(p)
        \/ ShutdownOnceUnlock(p)
        \/ ShutdownReturn(p)

Spec == Init /\ [][Next]_vars

\* the Exporter made by NewExporter instead of NewUnstartedExporter: no Exporter
\* exists before the call, and the caller gets one only if Start succeeded
InitNew ==
    /\ Unstarted
    /\ handle = [state |-> "none", by |-> 0]
    /\ shutdownFirst = "untracked"

NextNew ==
    \/ Next
    \/ \E p \in Procs : NewExporterCall(p)
    \/ \E p \in Procs : NewExporterReturn(p)

SpecNew == InitNew /\ [][NextNew]_vars

\* the Exporter of Init, with the history of calls kept: whether a Shutdown call
\* returned before any Start call began
InitSeq ==
    /\ Unstarted
    /\ handle = [state |-> "shared", by |-> 0]
    /\ shutdownFirst = "no"

SpecSeq == InitSeq /\ [][Next]_vars

\* the steps a goroutine inside a call takes when scheduled, the returns of the
\* Client's operations included; whether a call is made at all is up to the caller
Step(p) ==
    \/ ExportSpansCheck(p)
    \/ ExportSpansUpload(p)
    \/ ExportSpansUploadReturn(p)
    \/ ExportSpansReturn(p)
    \/ StartOnceDo(p)
    \/ StartOnceLock(p)
    \/ StartSetStarted(p)
    \/ StartMuUnlock(p)
    \/ StartClientStart(p)
    \/ StartClientReturn(p)
    \/ StartOnceDone(p)
    \/ StartOnceUnlock(p)
    \/ StartReturn(p)
    \/ ShutdownRLock(p)
    \/ ShutdownRead(p)
    \/ ShutdownRUnlock(p)
    \/ ShutdownCheck(p)
    \/ ShutdownOnceDo(p)
    \/ ShutdownOnceLock(p)
    \/ ShutdownClientStop(p)
    \/ ShutdownClientReturn(p)
    \/ ShutdownSetStopped(p)
    \/ ShutdownMuUnlock(p)
    \/ ShutdownOnceDone(p)
    \/ ShutdownOnceUnlock(p)
    \/ ShutdownReturn(p)

\* lines 57 and 80: e.mu.Lock(), which needs e.mu free of readers as well
MuLock(p) ==
    \/ StartMuLock(p)
    \/ ShutdownMuLock(p)

\* Fair scheduling: a goroutine that can step does; the Client's operations
\* return; and a goroutine in RWMutex.Lock gets the lock if it is free again and
\* again, since a pending Lock keeps new readers out (sync.RWMutex)
Fairness ==
    \A p \in Procs : WF_vars(Step(p)) /\ SF_vars(MuLock(p))

FairSpec == Init /\ [][Next]_vars /\ Fairness

\* ------------------------------------------------------------- properties

\* goroutine p returns from method in this step
Returns(p, method) == op[p] = method /\ pc[p] # "idle" /\ pc'[p] = "idle"

IsSpan(s) == s # "nil"

\* the wire records of the non-nil spans of batch b, in b's order
Expected(b) ==
    LET kept == SelectSeq(b, IsSpan)
    IN [i \in 1..Len(kept) |-> WireRecord(kept[i])]

\* C1: Client.Start is invoked at most once; when a Start call returns, the one
\* invocation has been made and has ended, the call that made it returns what
\* Client.Start returned, and any other returns errAlreadyStarted having invoked
\* nothing on the Client.
C1_StartExactlyOnce ==
    [][/\ client.startCalls' <= 1
       /\ \A p \in Procs :
            Returns(p, "Start") =>
                /\ client.startCalls = 1
                /\ ~client.inStart
                /\ IF "Start" \in invoked[p]
                   THEN ret'[p] = client.startResult
                   ELSE invoked[p] = {} /\ ret'[p] = errAlreadyStarted]_vars

\* C1 witness: two Start calls have returned, one with the Client's error and the
\* other with errAlreadyStarted.
C1_Witness ==
    \E p, q \in Procs :
        /\ pc[p] = "idle" /\ op[p] = "Start" /\ ret[p] = ErrClient
        /\ pc[q] = "idle" /\ op[q] = "Start" /\ ret[q] = errAlreadyStarted
        /\ client.startResult = ErrClient

\* C2: Client.Stop is invoked at most once; a Shutdown call that began when the
\* controller was Running (or already Stopped) returns with Client.Stop invoked
\* exactly once; a Shutdown call that did not invoke Client.Stop itself invoked
\* nothing on the Client and returns nil.
C2_StopAtMostOnce ==
    [][/\ client.stopCalls' <= 1
       /\ \A p \in Procs :
            Returns(p, "Shutdown") =>
                /\ beganState[p] # "Idle" => client.stopCalls = 1
                /\ "Stop" \notin invoked[p] => invoked[p] = {} /\ ret'[p] = Nil]_vars

\* C2 witness: two Shutdown calls that both read started = true are about to
\* return, one having invoked Client.Stop and the other not.
C2_Witness ==
    \E p, q \in Procs :
        /\ pc[p] = "shutdown_return" /\ "Stop" \in invoked[p]
        /\ pc[q] = "shutdown_return" /\ localStarted[q] /\ invoked[q] = {}
        /\ client.stopCalls = 1

\* C3 as claimed: every Shutdown call that got past the never-started test
\* returns, after Client.Stop has ended, what Client.Stop returned.
C3_WaitersReceiveStopResult ==
    [][\A p \in Procs :
            Returns(p, "Shutdown") /\ localStarted[p] =>
                /\ client.stopCalls = 1 /\ ~client.inStop
                /\ ret'[p] = client.stopResult]_vars

\* C3 as amended: every Shutdown call that got past the never-started test
\* returns only after the one execution of Client.Stop and of the gate has ended;
\* the call that invoked Client.Stop returns its result and every other returns
\* nil, whatever Client.Stop returned.
C3_WaitersBlockAndReturnNil ==
    [][\A p \in Procs :
            Returns(p, "Shutdown") /\ localStarted[p] =>
                /\ client.stopCalls = 1 /\ ~client.inStop /\ stopOnce.done
                /\ ret'[p] = IF "Stop" \in invoked[p] THEN client.stopResult ELSE Nil]_vars

\* C3 witness: Client.Stop returned an error and a Shutdown call that read
\* started = true without invoking Client.Stop is about to return.
C3_Witness ==
    \E p \in Procs :
        /\ pc[p] = "shutdown_return" /\ localStarted[p] /\ invoked[p] = {}
        /\ client.stopResult = ErrClient

\* C4 as claimed: an ExportSpans call that begins and returns with the controller
\* Idle, or begins with it Stopped, returns nil without invoking the Client.
C4_DroppedWhenNotRunning ==
    [][\A p \in Procs :
            /\ Returns(p, "ExportSpans")
            /\ beganState[p] # "Running" /\ ControllerState = beganState[p]
            => ret'[p] = Nil /\ invoked[p] = {}]_vars

\* C4 as amended: an ExportSpans call with at least one non-nil span that begins
\* and returns with the controller Idle, or begins with it Stopped, is forwarded
\* like any other: UploadTraces is invoked exactly once with the transformed batch
\* and its result is returned.
C4_ForwardedWhenNotRunning ==
    [][\A p \in Procs :
            /\ Returns(p, "ExportSpans")
            /\ beganState[p] # "Running" /\ ControllerState = beganState[p]
            /\ Expected(ss[p]) # <<>>
            => /\ uploaded[p] = <<Expected(ss[p])>>
               /\ uploadResult[p] \in ClientResults
               /\ ret'[p] = uploadResult[p]]_vars

\* C4 witness: an ExportSpans call begun after the controller Stopped has had its
\* batch uploaded and is about to return the Client's error.
C4_Witness ==
    \E p \in Procs :
        /\ pc[p] = "export_return" /\ beganState[p] = "Stopped"
        /\ uploaded[p] # <<>> /\ uploadResult[p] = ErrClient

\* C5: a Shutdown call that returns while no Start call has ever begun returns nil
\* and has invoked nothing on the Client, and the Client has received no call.
C5_ShutdownNeverStarted ==
    [][\A p \in Procs :
            Returns(p, "Shutdown") /\ ~startBegun =>
                /\ ret'[p] = Nil /\ invoked[p] = {}
                /\ client.startCalls = 0 /\ client.stopCalls = 0]_vars

\* C5 witness: with no Start call ever begun, one Shutdown call has returned nil
\* and another is about to return.
C5_Witness ==
    /\ ~startBegun
    /\ \E p, q \in Procs :
        /\ pc[p] = "idle" /\ op[p] = "Shutdown" /\ ret[p] = Nil
        /\ pc[q] = "shutdown_return"

\* C6: when Client.Start returned an error, the Start call that invoked it returns
\* that error with started still true unless Client.Stop has since been invoked
\* (the flag is never reset by Start), and a Shutdown call begun after a Start call
\* returned returns with Client.Stop invoked exactly once.
C6_FailedStartStillRunning ==
    [][\A p \in Procs :
            /\ Returns(p, "Start") /\ "Start" \in invoked[p]
               /\ client.startResult = ErrClient
               => /\ ret'[p] = ErrClient
                  /\ writes # <<>> /\ writes[1] = TRUE
                  /\ started \/ client.stopCalls = 1
            /\ Returns(p, "Shutdown") /\ beganAfterStart[p]
               /\ client.startResult = ErrClient
               => client.stopCalls = 1 /\ ~client.inStop]_vars

\* C6 witness: Client.Start failed, a Start call returned, and a Shutdown call
\* begun afterwards, with the controller Running, has invoked Client.Stop and is
\* about to return.
C6_Witness ==
    \E p \in Procs :
        /\ pc[p] = "shutdown_return" /\ beganAfterStart[p] /\ beganState[p] = "Running"
        /\ client.startResult = ErrClient /\ "Stop" \in invoked[p]

\* C7: the controller state changes only from Idle to Running and from Running to
\* Stopped, and started is written at most twice: true, then false.
C7_StateOneWay ==
    [][/\ ControllerState' # ControllerState =>
            <<ControllerState, ControllerState'>> \in
                {<<"Idle", "Running">>, <<"Running", "Stopped">>}
       /\ writes' # writes => writes' \in {<<TRUE>>, <<TRUE, FALSE>>}]_vars

\* C7 witness: a Start call begun after the controller Stopped is about to return,
\* and the controller is Stopped.
C7_Witness ==
    \E p \in Procs :
        /\ op[p] = "Start" /\ pc[p] = "start_return" /\ beganState[p] = "Stopped"
        /\ ControllerState = "Stopped"

\* C8: an ExportSpans call whose batch is empty or holds only nil spans returns nil
\* having invoked nothing on the Client, whatever the controller state; and no
\* step of an ExportSpans call changes what the Client has received from Start
\* and Stop.
C8_EmptyBatchSkipsClient ==
    [][\A p \in Procs :
            /\ Returns(p, "ExportSpans") /\ (\A i \in 1..Len(ss[p]) : ss[p][i] = "nil")
               => ret'[p] = Nil /\ invoked[p] = {} /\ uploaded[p] = <<>>
            /\ op'[p] = "ExportSpans" /\ pc'[p] # pc[p] => client' = client]_vars

\* C8 witness: on a Running controller whose Start has returned, a call with the
\* empty batch and a call with a batch of one nil span are both about to return.
C8_Witness ==
    /\ started /\ startReturned /\ client.startCalls = 1
    /\ \E p, q \in Procs :
        /\ pc[p] = "export_return" /\ ss[p] = <<>> /\ invoked[p] = {}
        /\ pc[q] = "export_return" /\ ss[q] = <<"nil">> /\ invoked[q] = {}

\* C9: an ExportSpans call begun on a Running controller with N >= 1 non-nil spans
\* returns having invoked UploadTraces exactly once, with the N wire records of
\* those spans in input order, and returns what UploadTraces returned.
C9_ForwardsOnceInOrder ==
    [][\A p \in Procs :
            /\ Returns(p, "ExportSpans") /\ beganState[p] = "Running"
            /\ Expected(ss[p]) # <<>>
            => /\ Len(uploaded[p]) = 1
               /\ uploaded[p][1] = Expected(ss[p])
               /\ invoked[p] = {"UploadTraces"}
               /\ uploadResult[p] \in ClientResults
               /\ ret'[p] = uploadResult[p]]_vars

\* C9 witness: a call begun on a Running controller with spans b, a has uploaded
\* their wire records in that order, UploadTraces failed, and it is about to return.
C9_Witness ==
    \E p \in Procs :
        /\ pc[p] = "export_return" /\ beganState[p] = "Running"
        /\ ss[p] = <<"b", "a">>
        /\ uploaded[p] = << <<WireRecord("b"), WireRecord("a")>> >>
        /\ uploadResult[p] = ErrClient

\* C10: once Client.Start has been invoked, started has already been written, and
\* its first write was true.
C10_FlagBeforeClientStart ==
    client.startCalls > 0 => writes # <<>> /\ writes[1] = TRUE

\* C10 witness: Client.Start is in progress and started is true.
C10_Witness ==
    \E p \in Procs : pc[p] = "start_client_wait" /\ client.inStart /\ started

\* C11: no Start call returns errAlreadyStarted before the single execution of
\* Client.Start has returned: a Start that returns errAlreadyStarted returns when
\* Client.Start has been invoked once, is no longer in progress, has a result, and
\* the start gate is marked done; the callers that did not execute it waited.
C11_AlreadyStartedAfterClientStart ==
    [][\A p \in Procs :
          Returns(p, "Start") /\ ret'[p] = errAlreadyStarted
              => /\ client.startCalls = 1
                 /\ ~client.inStart
                 /\ client.startResult # "none"
                 /\ startOnce.done]_vars

\* a Start call that waited for the gate's lock finds the gate done and is about
\* to return errAlreadyStarted, having invoked nothing
C11_Witness ==
    \E p \in Procs :
        /\ op[p] = "Start" /\ pc[p] = "start_once_unlock"
        /\ invoked[p] = {} /\ err[p] = errAlreadyStarted
        /\ startOnce.m = p

\* C12: if Client.Stop returned the error E, the Shutdown call that executed it
\* returns E with the controller marked Stopped and the stop gate done, and every
\* other Shutdown call returning from then on returns nil having invoked nothing;
\* Client.Stop is never invoked a second time.
C12_FailedStopNotRetried ==
    [][\A p \in Procs :
          Returns(p, "Shutdown") /\ client.stopResult = ErrClient
              => /\ client.stopCalls = 1
                 /\ IF "Stop" \in invoked[p]
                    THEN /\ ret'[p] = ErrClient
                         /\ ControllerState = "Stopped"
                         /\ stopOnce.done
                    ELSE /\ ret'[p] = Nil
                         /\ invoked[p] = {}]_vars

\* the executor is about to return E while a Shutdown call that began after the
\* controller was marked Stopped is about to return, having invoked nothing
C12_Witness ==
    \E p, q \in Procs :
        /\ p # q
        /\ pc[p] = "shutdown_return" /\ "Stop" \in invoked[p] /\ err[p] = ErrClient
        /\ pc[q] = "shutdown_return" /\ invoked[q] = {} /\ beganState[q] = "Stopped"

\* C13: the flag is reset only after Client.Stop has returned: it is true for as
\* long as Client.Stop is in progress, a Shutdown call reading it then reads true,
\* and a Shutdown call that read true and did not execute Client.Stop returns
\* only once the stop gate is done and Client.Stop is no longer in progress.
C13_StoppedAfterClientStop ==
    [][/\ client.inStop => started
       /\ started /\ ~started'
              => client.stopCalls = 1 /\ ~client.inStop /\ client.stopResult # "none"
       /\ \A p \in Procs :
              /\ pc[p] = "shutdown_read" /\ pc'[p] # pc[p] /\ client.inStop
                     => localStarted'[p]
              /\ (/\ op[p] = "Shutdown" /\ localStarted[p] /\ "Stop" \notin invoked[p]
                  /\ pc[p] # "shutdown_return" /\ pc'[p] = "shutdown_return")
                     => stopOnce.done /\ ~client.inStop]_vars

\* while Client.Stop is in progress another Shutdown call has read the flag as
\* true and waits for the stop gate's lock
C13_Witness ==
    /\ client.inStop
    /\ started
    /\ \E q \in Procs :
           /\ pc[q] = "shutdown_once_lock" /\ localStarted[q]
           /\ stopOnce.m # 0 /\ stopOnce.m # q

\* the steps of an ExportSpans call
ExportSpansStep(p) ==
    \/ ExportSpansCheck(p)
    \/ ExportSpansUpload(p)
    \/ ExportSpansUploadReturn(p)
    \/ ExportSpansReturn(p)

\* C14: no step of an ExportSpans call, its return included, changes the flag,
\* the lock, the start gate, the stop gate or the Client's Start/Stop record; and
\* a call inside ExportSpans can always take its next step, whatever Start and
\* Shutdown are doing.
C14_ExportSpansFrame ==
    /\ [][\A p \in Procs :
              op'[p] = "ExportSpans" /\ pc'[p] # pc[p]
                  => /\ UNCHANGED <<started, mu, startOnce, stopOnce, writes>>
                     /\ client' = client]_vars
    /\ [](\A p \in Procs :
              op[p] = "ExportSpans" /\ pc[p] # "idle" => ENABLED ExportSpansStep(p))

\* an ExportSpans call has uploaded and is about to return while Client.Start is
\* still in progress
C14_Witness ==
    /\ client.inStart
    /\ \E p \in Procs :
           /\ op[p] = "ExportSpans" /\ pc[p] = "export_return"
           /\ uploaded[p] # <<>>

\* C15: NewExporter returns when Client.Start has been invoked exactly once and
\* has returned; it hands out the Exporter, Running and with a nil error, exactly
\* when Client.Start returned nil; otherwise it returns Client.Start's error and
\* no Exporter, and Client.Stop is never invoked.
C15_NewExporter ==
    /\ [][handle.state = "constructing" /\ handle'.state # "constructing"
              => /\ client.startCalls = 1
                 /\ ~client.inStart
                 /\ handle'.state = "shared" <=> client.startResult = Nil
                 /\ handle'.state = "shared"
                        => newRet' = Nil /\ ControllerState = "Running"
                 /\ handle'.state # "shared"
                        => /\ handle'.state = "failed"
                           /\ newRet' = ErrClient
                           /\ newRet' = client.startResult]_vars
    /\ [](handle.state # "shared"
              => /\ client.stopCalls = 0
                 /\ client.startCalls <= 1)
    /\ [](handle.state = "failed"
              => /\ \A p \in Procs : pc[p] = "idle"
                 /\ client.startResult = ErrClient)

\* NewExporter has returned Client.Start's error and no Exporter
C15_Witness ==
    /\ handle.state = "failed"
    /\ newRet = ErrClient
    /\ client.startCalls = 1

\* C16 as stated: Client.Stop is invoked only once Client.Start has returned
C16_StopAfterClientStartReturned ==
    [][client.stopCalls' > client.stopCalls
          => client.startResult # "none" /\ ~client.inStart]_vars

\* C16, amended: Client.Stop is invoked only after the executing Start has set
\* the flag, which it does before it invokes Client.Start, so Client.Stop can
\* reach the Client before or during Client.Start, never without a Start call.
C16_StopAfterFlagSet ==
    [][client.stopCalls' > client.stopCalls
          => /\ writes = <<TRUE>>
             /\ started
             /\ startBegun
             /\ startOnce.m # 0 \/ startOnce.done]_vars

\* Client.Stop is in progress while Client.Start is
C16_Witness ==
    /\ client.inStart
    /\ client.inStop

\* C17: a Shutdown call that began after some Start call had returned returns
\* only when Client.Stop has been invoked, once, and has returned, whichever
\* Shutdown call executed it.
C17_ShutdownAfterStartWaitsForStop ==
    [][\A p \in Procs :
          Returns(p, "Shutdown") /\ beganAfterStart[p]
              => /\ client.stopCalls = 1
                 /\ ~client.inStop
                 /\ client.stopResult # "none"]_vars

\* two Shutdown calls that began after a Start had returned are about to return:
\* one executed Client.Stop, the other waited for it
C17_Witness ==
    \E p, q \in Procs :
        /\ p # q
        /\ pc[p] = "shutdown_return" /\ beganAfterStart[p] /\ "Stop" \in invoked[p]
        /\ pc[q] = "shutdown_return" /\ beganAfterStart[q] /\ invoked[q] = {}
        /\ localStarted[q]

\* C18: a Shutdown call that returns before any Start call began leaves the stop
\* gate unused and the controller Idle with nothing invoked; after such a call
\* the executing Start still returns the result of the one Client.Start, and a
\* Shutdown that began after a Start had returned returns with Client.Stop
\* invoked exactly once and finished.
C18_ShutdownBeforeStartIsNoOp ==
    [][\A p \in Procs :
          /\ Returns(p, "Shutdown") /\ ~startBegun
                 => /\ ret'[p] = Nil
                    /\ stopOnce = [done |-> FALSE, m |-> 0]
                    /\ ControllerState = "Idle"
                    /\ client.stopCalls = 0
          /\ Returns(p, "Start") /\ shutdownFirst = "yes"
                 => /\ client.startCalls = 1
                    /\ "Start" \in invoked[p] => ret'[p] = client.startResult
          /\ Returns(p, "Shutdown") /\ shutdownFirst = "yes" /\ beganAfterStart[p]
                 => client.stopCalls = 1 /\ ~client.inStop]_vars

\* after a Shutdown on the never-started controller and then a Start, a Shutdown
\* call has executed Client.Stop and is about to return
C18_Witness ==
    /\ shutdownFirst = "yes"
    /\ client.startCalls = 1
    /\ \E p \in Procs :
           /\ pc[p] = "shutdown_return" /\ beganAfterStart[p]
           /\ "Stop" \in invoked[p]

\* C19: under fair scheduling, with every Client operation returning, every
\* Start, ExportSpans and Shutdown call eventually returns.
C19_EveryCallReturns ==
    \A p \in Procs : (pc[p] # "idle") ~> (pc[p] = "idle")

\* a goroutine waits in e.mu.Lock while another holds e.mu as a reader
C19_Witness ==
    \E p, q \in Procs :
        /\ p # q
        /\ pc[p] \in {"start_mu_lock", "shutdown_mu_lock"}
        /\ q \in mu.readers

====
